---- MODULE Spec2Model ----
(***************************************************************************)
(* Model of main_pipline.py: the article fetcher (extract_articles, with   *)
(* the urllib3 Retry policy it configures), the text metrics               *)
(* (count_syllables, is_complex, count_personal_pronouns, analyze_text)    *)
(* and the two-pass driver (main).                                         *)
(*                                                                         *)
(* Python strings are sequences of one-character strings, so that          *)
(* lower(), endswith(), isalpha(), the tokenizers and the file format      *)
(* title + "\n\n" + body are computed character by character.              *)
(***************************************************************************)
EXTENDS Integers, Sequences, FiniteSets, TLC

VARIABLES
    df,          \* the input rows: a sequence of [URL_ID, URL]
    files,       \* ARTICLE_FOLDER: URL_ID -> text of {URL_ID}.txt, or NoFile
    pc,          \* position of main(): "extract", "analyze", "done"
    row,         \* index of the row the current loop is at
    attempts,    \* GETs sent so far by the session.get of the row last fetched
    retries,     \* the Retry object of the session.get in progress
    lastOutcome, \* what the latest GET of the session.get in progress met
    fetchLog,    \* the rows handed to session.get in this run, in order
    outcome,     \* per row fetched in this run: how its loop body ended
    results,     \* the list `results` of main()
    report,      \* OUTPUT_FILE: the rows written, or NoFile
    run,         \* which run of the pipeline this is
    replay,      \* `outcome` of the previous run (what the web answers again)
    prevFiles,   \* ARTICLE_FOLDER when the previous run ended
    prevReport,  \* OUTPUT_FILE when the previous run ended
    word,        \* argument of count_syllables / is_complex
    sylOut,      \* their results
    text,        \* argument of analyze_text
    lexicon,     \* [stop_words, positive_words, negative_words]
    metricsOut   \* result of analyze_text

vars == <<df, files, pc, row, attempts, retries, lastOutcome, fetchLog,
          outcome, results, report, run, replay, prevFiles, prevReport,
          word, sylOut, text, lexicon, metricsOut>>

pipelineVars == <<df, files, pc, row, attempts, retries, lastOutcome, fetchLog,
                  outcome, results, report, run, replay, prevFiles, prevReport>>

functionVars == <<word, sylOut, text, lexicon, metricsOut>>

-----------------------------------------------------------------------------
(* Bounds of the model *)

MaxWordLen == 4
MaxTextLen == 4
MaxRows == 2
MaxRuns == 2

-----------------------------------------------------------------------------
(* Characters and str methods *)

UpperCase == <<"A","B","C","D","E","F","G","H","I","J","K","L","M",
               "N","O","P","Q","R","S","T","U","V","W","X","Y","Z">>
LowerCase == <<"a","b","c","d","e","f","g","h","i","j","k","l","m",
               "n","o","p","q","r","s","t","u","v","w","x","y","z">>

Letters == {UpperCase[k] : k \in 1..26} \cup {LowerCase[k] : k \in 1..26}
Digits == {"0","1","2","3","4","5","6","7","8","9"}
Whitespace == {" ", "\n"}
Punctuation == {"."}
Chars == Letters \cup Digits \cup Whitespace \cup Punctuation

Max(a, b) == IF a >= b THEN a ELSE b

\* str.lower() on one character
LowerChar(c) ==
    IF \E k \in 1..26 : UpperCase[k] = c
    THEN LowerCase[CHOOSE k \in 1..26 : UpperCase[k] = c]
    ELSE c

\* str.lower()
lower(s) == [k \in 1..Len(s) |-> LowerChar(s[k])]

\* str.isalpha(): non-empty and every character a letter
isalpha(s) == Len(s) > 0 /\ \A k \in 1..Len(s) : s[k] \in Letters

\* str.endswith(suffix)
endswith(s, suffix) ==
    /\ Len(s) >= Len(suffix)
    /\ SubSeq(s, Len(s) - Len(suffix) + 1, Len(s)) = suffix

\* str.strip() / get_text(strip=True): leading and trailing whitespace removed
RECURSIVE lstrip(_)
lstrip(s) == IF s # <<>> /\ Head(s) \in Whitespace THEN lstrip(Tail(s)) ELSE s

RECURSIVE rstrip(_)
rstrip(s) ==
    IF s # <<>> /\ s[Len(s)] \in Whitespace
    THEN rstrip(SubSeq(s, 1, Len(s) - 1))
    ELSE s

strip(s) == rstrip(lstrip(s))

\* sep.join(parts)
RECURSIVE join(_, _)
join(sep, parts) ==
    IF parts = <<>> THEN <<>>
    ELSE IF Len(parts) = 1 THEN parts[1]
    ELSE parts[1] \o sep \o join(sep, Tail(parts))

\* the maximal runs of characters of s that are not in seps, in order
RECURSIVE RunsFrom(_, _, _, _)
RunsFrom(s, k, cur, seps) ==
    IF k > Len(s)
    THEN IF cur = <<>> THEN <<>> ELSE <<cur>>
    ELSE IF s[k] \in seps
         THEN (IF cur = <<>> THEN <<>> ELSE <<cur>>) \o RunsFrom(s, k + 1, <<>>, seps)
         ELSE RunsFrom(s, k + 1, Append(cur, s[k]), seps)

Runs(s, seps) == RunsFrom(s, 1, <<>>, seps)

-----------------------------------------------------------------------------
(* count_syllables, is_complex, count_personal_pronouns *)

vowels == {"a", "e", "i", "o", "u"}

\* the for loop of count_syllables: <<count, prev_vowel>> after characters k..
RECURSIVE SyllableScan(_, _, _, _)
SyllableScan(w, k, count, prev_vowel) ==
    IF k > Len(w) THEN count
    ELSE IF w[k] \in vowels
         THEN SyllableScan(w, k + 1, IF ~prev_vowel THEN count + 1 ELSE count, TRUE)
         ELSE SyllableScan(w, k + 1, count, FALSE)

\* mutant: the scan tests the characters of the word as given, not lower-cased
count_syllables_NoLower(w) ==
    LET count == SyllableScan(w, 1, 0, FALSE)
        dec == IF endswith(lower(w), <<"e","s">>) \/ endswith(lower(w), <<"e","d">>)
               THEN 1 ELSE 0
    IN Max(count - dec, 1)

\* mutant: the "es"/"ed" ending is not discounted
count_syllables_NoSuffix(w) == Max(SyllableScan(lower(w), 1, 0, FALSE), 1)

count_syllables(w) ==
    LET lw == lower(w)
        count == SyllableScan(lw, 1, 0, FALSE)
        dec == IF endswith(lw, <<"e","s">>) \/ endswith(lw, <<"e","d">>)
               THEN 1 ELSE 0
    IN Max(count - dec, 1)

is_complex(w) == count_syllables(w) > 2

\* \b(I|we|my|ours|us)\b with re.I: the maximal runs of word characters
\* (letters, digits) that are one of the pronouns, case ignored
pronouns == { <<"i">>, <<"w","e">>, <<"m","y">>, <<"o","u","r","s">>, <<"u","s">> }

count_personal_pronouns(t) ==
    LET runs == Runs(t, Chars \ (Letters \cup Digits))
    IN Cardinality({k \in 1..Len(runs) : lower(runs[k]) \in pronouns})

-----------------------------------------------------------------------------
(* The tokenizers (nltk): text split at whitespace; a "." that ends such a  *)
(* chunk is a token of its own and closes the sentence.                    *)

\* one whitespace-delimited chunk as word tokens
ChunkTokens(chunk) ==
    IF Len(chunk) > 1 /\ chunk[Len(chunk)] \in Punctuation
    THEN <<SubSeq(chunk, 1, Len(chunk) - 1), <<chunk[Len(chunk)]>> >>
    ELSE <<chunk>>

RECURSIVE FlattenTokens(_)
FlattenTokens(chunks) ==
    IF chunks = <<>> THEN <<>>
    ELSE ChunkTokens(Head(chunks)) \o FlattenTokens(Tail(chunks))

word_tokenize(t) == FlattenTokens(Runs(t, Whitespace))

\* sentences as sequences of chunks; cur is the sentence being collected
RECURSIVE SentencesFrom(_, _)
SentencesFrom(chunks, cur) ==
    IF chunks = <<>>
    THEN IF cur = <<>> THEN <<>> ELSE <<cur>>
    ELSE LET c == Head(chunks)
         IN IF c[Len(c)] \in Punctuation
            THEN <<Append(cur, c)>> \o SentencesFrom(Tail(chunks), <<>>)
            ELSE SentencesFrom(Tail(chunks), Append(cur, c))

sent_tokenize(t) == SentencesFrom(Runs(t, Whitespace), <<>>)

-----------------------------------------------------------------------------
(* Python numbers: exact fractions [num, den] in lowest terms, den > 0.    *)

RECURSIVE GCD(_, _)
GCD(a, b) == IF b = 0 THEN a ELSE GCD(b, a % b)

Abs(a) == IF a < 0 THEN -a ELSE a

Frac(a, b) ==
    LET g == GCD(Abs(a), b)
    IN [num |-> a \div g, den |-> b \div g]

Zero == [num |-> 0, den |-> 1]

\* what a / 0 gives: the evaluation raises
ZeroDivisionError == [num |-> 0, den |-> 0]

\* a / b of Python
PyDiv(a, b) == IF b = 0 THEN ZeroDivisionError ELSE Frac(a, b)

FAdd(x, y) == Frac(x.num * y.den + y.num * x.den, x.den * y.den)
FMul(x, y) == Frac(x.num * y.num, x.den * y.den)

\* sum(f(w) for w in ws), f given as a function on the words
RECURSIVE SumOver(_, _)
SumOver(ws, f) == IF ws = <<>> THEN 0 ELSE f[Head(ws)] + SumOver(Tail(ws), f)

\* [w for w in ws if w in keep]
RECURSIVE Filter(_, _)
Filter(ws, keep) ==
    IF ws = <<>> THEN <<>>
    ELSE (IF Head(ws) \in keep THEN <<Head(ws)>> ELSE <<>>) \o Filter(Tail(ws), keep)

Range(s) == {s[k] : k \in 1..Len(s)}

-----------------------------------------------------------------------------
(* analyze_text *)

\* the list comprehension of cleaned_words
cleaned_words_of(t, stop_words) ==
    LET words == word_tokenize(t)
        kept == {w \in Range(words) : isalpha(w) /\ lower(w) \notin stop_words}
        sel == Filter(words, kept)
    IN [k \in 1..Len(sel) |-> lower(sel[k])]

CountIn(ws, S) == Cardinality({k \in 1..Len(ws) : ws[k] \in S})

SyllableSum(ws) == SumOver(ws, [w \in Range(ws) |-> count_syllables(w)])
LengthSum(ws) == SumOver(ws, [w \in Range(ws) |-> Len(w)])

\* the scores that need no guard, and the list returned; the evaluation
\* raises when one of the divisions did
MetricsVector(cleaned_words, t, positive_words, negative_words, avg_sentence_length, percentage_complex_words, syllables_per_word, avg_word_length) ==
    LET word_count == Len(cleaned_words)
        positive_score == CountIn(cleaned_words, positive_words)
        negative_score == CountIn(cleaned_words, negative_words)
        polarity_score ==
            PyDiv((positive_score - negative_score) * 1000000,
                  (positive_score + negative_score) * 1000000 + 1)
        subjectivity_score ==
            PyDiv((positive_score + negative_score) * 1000000,
                  word_count * 1000000 + 1)
        complex_word_count ==
            Cardinality({k \in 1..Len(cleaned_words) : is_complex(cleaned_words[k])})
        raised == ZeroDivisionError \in
                     {polarity_score, subjectivity_score, avg_sentence_length,
                      percentage_complex_words, syllables_per_word, avg_word_length}
        fog_index ==
            FMul(Frac(2, 5), FAdd(avg_sentence_length, percentage_complex_words))
    IN [raised |-> raised,
        metrics |->
            IF raised THEN <<>>
            ELSE << Frac(positive_score, 1),
                    Frac(negative_score, 1),
                    polarity_score,
                    subjectivity_score,
                    avg_sentence_length,
                    percentage_complex_words,
                    fog_index,
                    avg_sentence_length,
                    Frac(complex_word_count, 1),
                    Frac(word_count, 1),
                    syllables_per_word,
                    Frac(count_personal_pronouns(t), 1),
                    avg_word_length >>]

\* mutant: the three "if word_count else 0" guards are missing
analyze_text_Unguarded(t, stop_words, positive_words, negative_words) ==
    LET cleaned_words == cleaned_words_of(t, stop_words)
        word_count == Len(cleaned_words)
        sentence_count == Len(sent_tokenize(t))
        complex_word_count ==
            Cardinality({k \in 1..Len(cleaned_words) : is_complex(cleaned_words[k])})
    IN MetricsVector(cleaned_words, t, positive_words, negative_words,
           IF sentence_count # 0 THEN PyDiv(word_count, sentence_count) ELSE Zero,
           PyDiv(complex_word_count, word_count),
           PyDiv(SyllableSum(cleaned_words), word_count),
           PyDiv(LengthSum(cleaned_words), word_count))

analyze_text(t, stop_words, positive_words, negative_words) ==
    LET cleaned_words == cleaned_words_of(t, stop_words)
        word_count == Len(cleaned_words)
        sentence_count == Len(sent_tokenize(t))
        complex_word_count ==
            Cardinality({k \in 1..Len(cleaned_words) : is_complex(cleaned_words[k])})
    IN MetricsVector(cleaned_words, t, positive_words, negative_words,
           IF sentence_count # 0 THEN PyDiv(word_count, sentence_count) ELSE Zero,
           IF word_count # 0 THEN PyDiv(complex_word_count, word_count) ELSE Zero,
           IF word_count # 0 THEN PyDiv(SyllableSum(cleaned_words), word_count) ELSE Zero,
           IF word_count # 0 THEN PyDiv(LengthSum(cleaned_words), word_count) ELSE Zero)

-----------------------------------------------------------------------------
(* The inputs of a run: the rows of INPUT_FILE, the pages the web serves,   *)
(* what ARTICLE_FOLDER holds beforehand, the lexicons loaded by main().     *)

\* a row may occur more than once in the input: two requests of one URL_ID
Rows ==
    { [URL_ID |-> 1, URL |-> "u1"],
      [URL_ID |-> 2, URL |-> "u2"] }

URL_IDs == {r.URL_ID : r \in Rows}

RECURSIVE SeqsOf(_, _)
SeqsOf(S, n) ==
    IF n = 0 THEN {<<>>}
    ELSE LET shorter == SeqsOf(S, n - 1)
         IN shorter \cup {Append(q, x) : q \in {p \in shorter : Len(p) = n - 1}, x \in S}

\* response.text as BeautifulSoup sees it: the first h1, and the paragraphs
\* of the div of class td-post-content
NoTag == [found |-> FALSE, text |-> <<>>, paragraphs |-> <<>>]

ArticlePage ==
    [h1 |-> [found |-> TRUE, text |-> <<" ","E","d">>, paragraphs |-> <<>>],
     div |-> [found |-> TRUE, text |-> <<>>,
              paragraphs |-> << <<"I"," ","a","."," ">>, <<"1">> >>]]

BlankPage == [h1 |-> NoTag, div |-> NoTag]

Pages == {ArticlePage, BlankPage}

NoFile == [exists |-> FALSE, text |-> <<>>]
File(t) == [exists |-> TRUE, text |-> t]

\* an article left in ARTICLE_FOLDER by an earlier use of the folder
StaleText == <<"u","s">>

NoReport == [exists |-> FALSE, rows |-> <<>>]

PipelineLexicon ==
    [stop_words |-> { <<"a">> },
     positive_words |-> { <<"e","d">> },
     negative_words |-> {}]

-----------------------------------------------------------------------------
(* The retry policy of the session: Retry(total, connect, read,            *)
(* status_forcelist, allowed_methods = {GET}) mounted on the adapter.      *)

RETRY_TOTAL == 3

status_forcelist == {429, 500, 502, 503, 504}

\* what one GET can meet
ConnectError == [kind |-> "connect_error", status |-> 0]
ReadError == [kind |-> "read_error", status |-> 0]
Status(c) == [kind |-> "status", status |-> c]
NoOutcome == [kind |-> "none", status |-> 0]

ServedStatuses == {200, 404, 503}

NewRetry == [total |-> RETRY_TOTAL, connect |-> RETRY_TOTAL, read |-> RETRY_TOTAL]

\* whether the GET that met o is to be retried (errors of an idempotent
\* method, and the statuses of the force list)
is_retry(o) == o.kind # "status" \/ o.status \in status_forcelist

\* Retry.increment
increment(r, o) ==
    [total |-> r.total - 1,
     connect |-> IF o.kind = "connect_error" THEN r.connect - 1 ELSE r.connect,
     read |-> IF o.kind = "read_error" THEN r.read - 1 ELSE r.read]

Min3(a, b, c) == IF a <= b /\ a <= c THEN a ELSE IF b <= c THEN b ELSE c

\* mutant: the budget counts attempts, not retries
is_exhausted_AtZero(r) == Min3(r.total, r.connect, r.read) <= 0

\* Retry.is_exhausted
is_exhausted(r) == Min3(r.total, r.connect, r.read) < 0

\* the exception session.get raises once the retries are exhausted on o
ExhaustedError(o) == IF o.kind = "status" THEN "RetryError" ELSE "ConnectionError"

-----------------------------------------------------------------------------
(* extract_articles: the body of the loop *)

Failed(error) == [kind |-> error, title |-> <<>>, body |-> <<>>]
Saved(title, body) == [kind |-> "Saved", title |-> title, body |-> body]

\* title_text and article_text of a page
title_text(page) == IF page.h1.found THEN strip(page.h1.text) ELSE <<>>

article_text(page) ==
    IF page.div.found
    THEN LET ps == page.div.paragraphs
         IN join(<<"\n">>, [k \in 1..Len(ps) |-> strip(ps[k])])
    ELSE <<>>

\* mutant: the file is opened for appending
write_file_Append(old, data) == File(old.text \o data)

\* open(file_path, "w") followed by f.write(data) on the file that was old
write_file(old, data) == File(data)

\* open(file_path, "w") succeeded and f.write raised: the file is there, cut to nothing
truncated_file(old) == File(<<>>)

\* mutant: the except branch leaves the loop
after_except_Break(r) == Len(df) + 1

\* the row the loop goes on with after the except branch of row r
after_except(r) == r + 1

\* the web answers a row in a later run as it did in the run before
Replays(result) == IF run = 1 THEN TRUE ELSE result = replay[row]

\* a GET is sent for the row: the first of its session.get, or a retry
SendGet ==
    /\ attempts' = IF lastOutcome = NoOutcome THEN 1 ELSE attempts + 1
    /\ fetchLog' = IF lastOutcome = NoOutcome THEN Append(fetchLog, row) ELSE fetchLog

\* the loop body ends with `result` for the row
EndRow(result, next) ==
    /\ Replays(result)
    /\ outcome' = Append(outcome, result)
    /\ row' = next
    /\ retries' = NewRetry
    /\ lastOutcome' = NoOutcome

\* line 113, a GET that fails or gets a status of the force list: it is
\* retried, or with the retries exhausted the exception reaches line 133
GetFails(o) ==
    /\ pc = "extract"
    /\ row <= Len(df)
    /\ is_retry(o)
    /\ SendGet
    /\ LET r == increment(retries, o)
       IN IF is_exhausted(r)
          THEN EndRow(Failed(ExhaustedError(o)), after_except(row))
          ELSE /\ retries' = r
               /\ lastOutcome' = o
               /\ UNCHANGED <<outcome, row>>
    /\ UNCHANGED <<df, files, pc, results, report, run, replay, prevFiles, prevReport>>
    /\ UNCHANGED functionVars

\* lines 113-134, a GET that gets a response: raise_for_status, the parse,
\* the write of the file (io: what open and write meet)
GetResponds(status, page, io) ==
    /\ pc = "extract"
    /\ row <= Len(df)
    /\ ~is_retry(Status(status))
    /\ SendGet
    /\ LET url_id == df[row].URL_ID
       IN IF status >= 400
          THEN /\ EndRow(Failed("HTTPError"), after_except(row))
               /\ UNCHANGED files
          ELSE CASE io = "open_error" ->
                      /\ EndRow(Failed("OSError(open)"), after_except(row))
                      /\ UNCHANGED files
                 [] io = "write_error" ->
                      /\ EndRow(Failed("OSError(write)"), after_except(row))
                      /\ files' = [files EXCEPT ![url_id] = truncated_file(@)]
                 [] OTHER ->
                      /\ EndRow(Saved(title_text(page), article_text(page)), row + 1)
                      /\ files' = [files EXCEPT ![url_id] =
                             write_file(@, title_text(page) \o <<"\n","\n">> \o article_text(page))]
    /\ UNCHANGED <<df, pc, results, report, run, replay, prevFiles, prevReport>>
    /\ UNCHANGED functionVars

-----------------------------------------------------------------------------
(* main *)

\* mutant: the analysis starts while rows are still to be fetched
ExtractReturns_Early ==
    /\ pc = "extract"
    /\ lastOutcome = NoOutcome
    /\ pc' = "analyze"
    /\ row' = 1
    /\ results' = <<>>
    /\ attempts' = 0
    /\ UNCHANGED <<df, files, retries, lastOutcome, fetchLog, outcome, report, run, replay, prevFiles, prevReport>>
    /\ UNCHANGED functionVars

\* extract_articles returns (the loop of line 108 is over, the session is
\* dropped); results = []
ExtractReturns ==
    /\ pc = "extract"
    /\ row > Len(df)
    /\ pc' = "analyze"
    /\ row' = 1
    /\ results' = <<>>
    /\ attempts' = 0
    /\ UNCHANGED <<df, files, retries, lastOutcome, fetchLog, outcome, report, run, replay, prevFiles, prevReport>>
    /\ UNCHANGED functionVars

ReportRow(r, metrics) == [URL_ID |-> r.URL_ID, URL |-> r.URL, metrics |-> metrics]

\* os.path.exists(article_path)
article_exists(url_id) == files[url_id].exists

\* lines 215-227: one row of the analysis loop
AnalyzeRow ==
    /\ pc = "analyze"
    /\ row <= Len(df)
    /\ LET url_id == df[row].URL_ID
           m == analyze_text(files[url_id].text, lexicon.stop_words, lexicon.positive_words, lexicon.negative_words)
       IN results' = IF article_exists(url_id)
                     THEN Append(results, ReportRow(df[row], m.metrics))
                     ELSE results
    /\ row' = row + 1
    /\ UNCHANGED <<df, files, pc, attempts, retries, lastOutcome, fetchLog, outcome, report, run, replay, prevFiles, prevReport>>
    /\ UNCHANGED functionVars

\* lines 237-238: the report is written
WriteReport ==
    /\ pc = "analyze"
    /\ row > Len(df)
    /\ report' = [exists |-> TRUE, rows |-> results]
    /\ pc' = "done"
    /\ UNCHANGED <<df, files, row, attempts, retries, lastOutcome, fetchLog, outcome, results, run, replay, prevFiles, prevReport>>
    /\ UNCHANGED functionVars

\* the pipeline is run again on the same input, the folders as they are
Rerun ==
    /\ pc = "done"
    /\ run < MaxRuns
    /\ run' = run + 1
    /\ replay' = outcome
    /\ prevFiles' = files
    /\ prevReport' = report
    /\ pc' = "extract"
    /\ row' = 1
    /\ attempts' = 0
    /\ fetchLog' = <<>>
    /\ outcome' = <<>>
    /\ results' = <<>>
    /\ UNCHANGED <<df, files, retries, lastOutcome, report>>
    /\ UNCHANGED functionVars

FunctionsIdle ==
    /\ word = <<>>
    /\ sylOut = [called |-> FALSE, count |-> 0, complex |-> FALSE]
    /\ text = <<>>
    /\ metricsOut = [called |-> FALSE, raised |-> FALSE, metrics |-> <<>>]

Init ==
    /\ df \in SeqsOf(Rows, MaxRows)
    /\ files \in [URL_IDs -> {NoFile, File(StaleText)}]
    /\ pc = "extract"
    /\ row = 1
    /\ attempts = 0
    /\ retries = NewRetry
    /\ lastOutcome = NoOutcome
    /\ fetchLog = <<>>
    /\ outcome = <<>>
    /\ results = <<>>
    /\ report = NoReport
    /\ run = 1
    /\ replay = <<>>
    /\ prevFiles = files
    /\ prevReport = NoReport
    /\ lexicon = PipelineLexicon
    /\ FunctionsIdle

Next ==
    \/ \E o \in {ConnectError, ReadError} \cup {Status(c) : c \in ServedStatuses} : GetFails(o)
    \/ \E c \in ServedStatuses, page \in Pages, io \in {"ok", "open_error", "write_error"} : GetResponds(c, page, io)
    \/ ExtractReturns
    \/ AnalyzeRow
    \/ WriteReport
    \/ Rerun

Spec == Init /\ [][Next]_vars

-----------------------------------------------------------------------------
(* count_syllables and is_complex applied to the words of a bounded set *)

WordAlphabet == {"a", "e", "E", "d", "D", "s"}

Created == <<"c","r","e","a","t","e","d">>

Words == (SeqsOf(WordAlphabet, MaxWordLen) \ {<<>>}) \cup {Created}

PipelineIdle ==
    /\ df = <<>>
    /\ files = [id \in URL_IDs |-> NoFile]
    /\ pc = "done"
    /\ row = 1
    /\ attempts = 0
    /\ retries = NewRetry
    /\ lastOutcome = NoOutcome
    /\ fetchLog = <<>>
    /\ outcome = <<>>
    /\ results = <<>>
    /\ report = NoReport
    /\ run = MaxRuns
    /\ replay = <<>>
    /\ prevFiles = files
    /\ prevReport = NoReport

InitSyllables ==
    /\ PipelineIdle
    /\ word \in Words
    /\ sylOut = [called |-> FALSE, count |-> 0, complex |-> FALSE]
    /\ text = <<>>
    /\ lexicon = PipelineLexicon
    /\ metricsOut = [called |-> FALSE, raised |-> FALSE, metrics |-> <<>>]

CallCountSyllables ==
    /\ ~sylOut.called
    /\ sylOut' = [called |-> TRUE, count |-> count_syllables(word), complex |-> is_complex(word)]
    /\ UNCHANGED <<word, text, lexicon, metricsOut>>
    /\ UNCHANGED pipelineVars

NextSyllables == CallCountSyllables

SpecSyllables == InitSyllables /\ [][NextSyllables]_vars

-----------------------------------------------------------------------------
(* analyze_text applied to the texts and lexicons of a bounded set *)

TextAlphabet == {"a", "I", "1", " ", "."}

Texts == SeqsOf(TextAlphabet, MaxTextLen)

Lexicons ==
    [stop_words : {{}, { <<"a">> }, { <<"a">>, <<"i">> }},
     positive_words : {{}, { <<"a">> }},
     negative_words : {{}, { <<"i">> }}]

InitAnalyze ==
    /\ PipelineIdle
    /\ word = <<>>
    /\ sylOut = [called |-> FALSE, count |-> 0, complex |-> FALSE]
    /\ text \in Texts
    /\ lexicon \in Lexicons
    /\ metricsOut = [called |-> FALSE, raised |-> FALSE, metrics |-> <<>>]

CallAnalyzeText ==
    /\ ~metricsOut.called
    /\ LET m == analyze_text(text, lexicon.stop_words, lexicon.positive_words, lexicon.negative_words)
       IN metricsOut' = [called |-> TRUE, raised |-> m.raised, metrics |-> m.metrics]
    /\ UNCHANGED <<word, sylOut, text, lexicon>>
    /\ UNCHANGED pipelineVars

NextAnalyze == CallAnalyzeText

SpecAnalyze == InitAnalyze /\ [][NextAnalyze]_vars

-----------------------------------------------------------------------------
(* Properties *)

\* the rows of the input whose loop body ended with "Saved", from row k on
RECURSIVE SavedRowsFrom(_)
SavedRowsFrom(k) ==
    IF k > Len(df) THEN <<>>
    ELSE (IF outcome[k].kind = "Saved" THEN <<df[k]>> ELSE <<>>) \o SavedRowsFrom(k + 1)

ReportedRows == [k \in 1..Len(report.rows) |-> [URL_ID |-> report.rows[k].URL_ID, URL |-> report.rows[k].URL]]

\* C1: the report written by a run holds exactly one row per request whose
\* fetch succeeded in that run, none for a request whose fetch failed, in the
\* order of the input (also with an article file already there for a failing
\* id, and with two requests of one URL_ID). Stated for the runs in which no
\* write of an article file fails, so that it does not rest on C4.
C1_ReportIsSavedRows ==
    (pc = "done" /\ \A k \in 1..Len(outcome) : outcome[k].kind # "OSError(write)")
        => ReportedRows = SavedRowsFrom(1)

RetryableOutcome(o) ==
    \/ o.kind \in {"connect_error", "read_error"}
    \/ o.kind = "status" /\ o.status \in {429, 500, 502, 503, 504}

LastEnded == outcome[Len(outcome)]

\* a step in which the loop body of a row ends
RowEnds == Len(outcome') = Len(outcome) + 1

C3_EmptyParseIsFailure ==
    \A k \in 1..Len(outcome) :
        ~(outcome[k].kind = "Saved" /\ outcome[k].title = <<>> /\ outcome[k].body = <<>>)

\* C4: a loop body that ends in failure leaves ARTICLE_FOLDER as it was.
C4_FailureLeavesStorage ==
    [][(RowEnds /\ outcome'[Len(outcome')].kind # "Saved") => files' = files]_vars

\* C5: in the extraction loop every row is handed to session.get exactly once,
\* in input order, whatever the rows before it met; the loop ends only after
\* the last row.
C5_EveryRowFetchedOnce ==
    /\ \A k \in 1..Len(fetchLog) : fetchLog[k] = k
    /\ Len(fetchLog) <= Len(df)
    /\ pc = "extract" =>
           Len(fetchLog) = (IF lastOutcome = NoOutcome THEN row - 1 ELSE row)
    /\ pc # "extract" => Len(fetchLog) = Len(df) /\ Len(outcome) = Len(df)

\* the first of two rows failed, and the second was fetched all the same
C5_Witness ==
    /\ pc = "analyze"
    /\ Len(df) = 2
    /\ outcome[1].kind # "Saved"
    /\ fetchLog = <<1, 2>>

\* the rows of id whose loop body wrote to the file of id
Writers(id) ==
    {k \in 1..Len(outcome) : df[k].URL_ID = id /\ outcome[k].kind \in {"Saved", "OSError(write)"}}

LastWriter(id) == CHOOSE k \in Writers(id) : \A j \in Writers(id) : j <= k

\* C6: a second run on the same input, with the same answer for every
\* request, leaves ARTICLE_FOLDER and the report as the first run left them;
\* a file last written by a successful fetch holds title + "\n\n" + body.
C6_RerunIdempotent ==
    pc = "done" =>
        /\ run > 1 => files = prevFiles /\ report = prevReport
        /\ \A id \in URL_IDs :
               (Writers(id) # {} /\ outcome[LastWriter(id)].kind = "Saved") =>
                   files[id] = File(outcome[LastWriter(id)].title \o <<"\n", "\n">> \o outcome[LastWriter(id)].body)

\* a second run has ended that saved an article and reported a row
C6_Witness ==
    /\ pc = "done"
    /\ run = 2
    /\ \E k \in 1..Len(outcome) : outcome[k].kind = "Saved" /\ outcome[k].body # <<>>
    /\ report.rows # <<>>

WordCountOf(t, lx) == Len(cleaned_words_of(t, lx.stop_words))

\* C7: when analyze_text counts no word, whatever the number of sentences,
\* avg_sentence_length, percentage_complex_words, syllables_per_word and
\* avg_word_length are 0 and no division by zero is raised.
C7_ZeroWordCount ==
    (metricsOut.called /\ WordCountOf(text, lexicon) = 0) =>
        /\ ~metricsOut.raised
        /\ Len(metricsOut.metrics) = 13
        /\ metricsOut.metrics[5] = Zero
        /\ metricsOut.metrics[6] = Zero
        /\ metricsOut.metrics[8] = Zero
        /\ metricsOut.metrics[10] = Zero
        /\ metricsOut.metrics[11] = Zero
        /\ metricsOut.metrics[13] = Zero

\* analyze_text returned for a text of two sentences and no word
C7_Witness ==
    /\ metricsOut.called
    /\ WordCountOf(text, lexicon) = 0
    /\ Len(sent_tokenize(text)) >= 2

\* g: the maximal runs of vowels of the lower-cased word
VowelGroups(w) ==
    Cardinality({k \in 1..Len(w) :
        /\ LowerChar(w[k]) \in {"a", "e", "i", "o", "u"}
        /\ (k = 1 \/ LowerChar(w[k - 1]) \notin {"a", "e", "i", "o", "u"})})

\* d: 1 when the lower-cased word ends in "es" or "ed"
SuffixDiscount(w) ==
    IF /\ Len(w) >= 2
       /\ LowerChar(w[Len(w) - 1]) = "e"
       /\ LowerChar(w[Len(w)]) \in {"s", "d"}
    THEN 1 ELSE 0

C9_CreatedTwoSyllables ==
    (sylOut.called /\ word = Created) =>
        /\ VowelGroups(word) = 3
        /\ sylOut.count = 2
        /\ ~sylOut.complex

\* C9 as amended: "created" has 2 vowel groups ("ea" and "e"), less 1 for
\* "ed": 1 syllable, not complex.
C9_CreatedOneSyllable ==
    (sylOut.called /\ word = Created) =>
        /\ VowelGroups(word) = 2
        /\ SuffixDiscount(word) = 1
        /\ sylOut.count = 1
        /\ ~sylOut.complex

\* count_syllables was applied to "created"
C9_Witness == sylOut.called /\ word = Created

\* C10: nothing is analyzed before the extraction loop has handled the last
\* row; the analysis loop goes through the rows in input order and appends
\* the row it is at only if its article file exists; the report is written
\* only after the analysis loop has been through every row.
C10_TwoPhases ==
    /\ [](/\ pc = "extract" => results = <<>>
          /\ pc # "extract" => Len(outcome) = Len(df))
    /\ [][/\ Len(results') > Len(results) =>
                /\ pc = "analyze"
                /\ row <= Len(df)
                /\ row' = row + 1
                /\ files[df[row].URL_ID].exists
                /\ Len(results') = Len(results) + 1
                /\ results'[Len(results')].URL_ID = df[row].URL_ID
                /\ results'[Len(results')].URL = df[row].URL
                /\ SubSeq(results', 1, Len(results)) = results
          /\ (pc = "analyze" /\ row' # row) =>
                /\ row' = row + 1
                /\ files[df[row].URL_ID].exists \/ results' = results
          /\ report' # report =>
                /\ pc = "analyze"
                /\ row = Len(df) + 1
                /\ report' = [exists |-> TRUE, rows |-> results]]_vars

\* a run has ended in which one of two rows had no article file and the
\* other was reported
C10_Witness ==
    /\ pc = "done"
    /\ Len(df) = 2
    /\ Len(report.rows) = 1
    /\ \E id \in URL_IDs : ~files[id].exists

====
